---- MODULE Spec2Model ----
(***************************************************************************)
(* The Datadog downtime resource of the Terraform provider                 *)
(* (datadog/resource_datadog_downtime.go): the local resource data `d`,    *)
(* the downtime kept by the Datadog API, and the five handlers Create,     *)
(* Read, Update, Delete and Import.                                        *)
(*                                                                         *)
(* Representation.  A Go pointer field and a schema attribute are both     *)
(* optional values: None (nil / not set) or Some(v).  A string that the    *)
(* code takes apart (message) is a sequence of one-character strings; the  *)
(* other strings are opaque.                                               *)
(***************************************************************************)
EXTENDS Integers, Sequences, FiniteSets, TLC

VARIABLES d, remote, last

vars == <<d, remote, last>>

-----------------------------------------------------------------------------
(* Bounds of the model *)

MaxTs == 2
MaxId == 2
MaxMsgLen == 2

Ts == 0..MaxTs
Ids == 1..MaxId

-----------------------------------------------------------------------------
(* Optional values, and the accessors of schema.ResourceData *)

None == <<>>
Some(v) == <<v>>
IsSome(o) == o # <<>>
Opt(S) == {None} \cup {Some(v) : v \in S}

\* d.Get(k): the value, or the zero value of the attribute's type when unset
GetInt(o) == IF o = None THEN 0 ELSE o[1]
GetString(o) == IF o = None THEN "" ELSE o[1]
GetBool(o) == IF o = None THEN FALSE ELSE o[1]
GetList(o) == IF o = None THEN <<>> ELSE o[1]
GetSet(o) == IF o = None THEN {} ELSE o[1]

\* d.GetOk(k): ok is true only for a value that is set and is not the zero value
GetOkInt(o) == GetInt(o) # 0
GetOkString(o) == GetString(o) # ""
GetOkList(o) == GetList(o) # <<>>

\* d.HasChange(k): the planned diff, handed in by the framework
HasChange(rd, attr) == attr \in rd.changed

Range(s) == {s[i] : i \in 1..Len(s)}

-----------------------------------------------------------------------------
(* Conversions *)

\* strconv.ParseInt(s, 10, 64) on the identifiers the model uses
ParseInt(s) ==
    IF \E n \in 0..(MaxId + 1) : ToString(n) = s
    THEN [err |-> FALSE, n |-> CHOOSE n \in 0..(MaxId + 1) : ToString(n) = s]
    ELSE [err |-> TRUE, n |-> 0]

\* strconv.Itoa / strconv.FormatInt(n, 10)
FormatInt(n) == ToString(n)

\* RFC3339 strings of the model: second n of the epoch, written in UTC and
\* written with a +01:00 offset
DateUTC(n) == "1970-01-01T00:00:0" \o ToString(n) \o "Z"
DateOffset(n) == "1970-01-01T01:00:0" \o ToString(n) \o "+01:00"

\* time.Parse(time.RFC3339, s) followed by t.Unix()
ParseRFC3339(s) ==
    IF \E n \in 0..9 : s = DateUTC(n)
    THEN [err |-> FALSE, unix |-> CHOOSE n \in 0..9 : s = DateUTC(n)]
    ELSE IF \E n \in 0..9 : s = DateOffset(n)
    THEN [err |-> FALSE, unix |-> CHOOSE n \in 0..9 : s = DateOffset(n)]
    ELSE [err |-> TRUE, unix |-> 0]

\* strings.TrimSpace on a sequence of characters
RECURSIVE TrimLeft(_)
TrimLeft(s) == IF s # <<>> /\ Head(s) = " " THEN TrimLeft(Tail(s)) ELSE s

RECURSIVE TrimRight(_)
TrimRight(s) ==
    IF s # <<>> /\ s[Len(s)] = " " THEN TrimRight(SubSeq(s, 1, Len(s) - 1)) ELSE s

TrimSpace(s) == TrimRight(TrimLeft(s))

-----------------------------------------------------------------------------
(* datadogV1.Downtime and datadogV1.DowntimeRecurrence: every field a pointer *)

EmptyRecurrence ==
    [Period |-> None, Type |-> None, UntilDate |-> None,
     UntilOccurrences |-> None, WeekDays |-> None, Rrule |-> None]

EmptyDowntime ==
    [Id |-> None, Active |-> None, Disabled |-> None,
     CanceledIsSet |-> FALSE, Canceled |-> None,
     Start |-> None, End |-> None, Message |-> None, MonitorId |-> None,
     MonitorTags |-> None, Recurrence |-> None, Scope |-> None,
     Timezone |-> None]

\* dt.GetCanceledOk(): the pointer and whether the field is set
GetCanceledOk(dt) == [canceled |-> dt.Canceled, ok |-> dt.CanceledIsSet]

\* a nil test the wrong way round
isCanceledInverted(dt) ==
    LET c == GetCanceledOk(dt) IN c.ok /\ c.canceled = None

\* canceled, ok := dt.GetCanceledOk(); ok && canceled != nil
isCanceled(dt) ==
    LET c == GetCanceledOk(dt) IN c.ok /\ c.canceled # None

-----------------------------------------------------------------------------
(* The Datadog API as the handlers see it.  `srv` is the downtime the       *)
(* service holds (None when there is none); `fault` is what goes wrong with *)
(* one call: nothing, an HTTP error status, or a transport failure, for     *)
(* which the client hands back a nil *http.Response.                        *)

Faults == {"none", "http", "transport"}

StatusNotFound == 404

Answer(err, resp, dt) == [err |-> err, resp |-> resp, dt |-> dt]
NoAnswer == Answer(FALSE, None, EmptyDowntime)

Exists(srv, id) == srv # None /\ srv[1].Id = Some(id)

\* a new downtime with no start begins at once and is active; monitor_tags defaults to ["*"] on the service when the downtime names no
\* monitor and no tags
ServerDefaults(dt) ==
    IF GetList(dt.MonitorTags) = <<>> /\ dt.MonitorId = None
    THEN [dt EXCEPT !.MonitorTags = Some(<<"*">>)]
    ELSE dt

\* a field the request carries replaces the stored one; a field it omits is
\* left as it is
Merge(old, req) ==
    [f \in DOMAIN old |->
        IF f \in {"CanceledIsSet", "Canceled", "Active", "Disabled"} THEN old[f]
        ELSE IF req[f] # None THEN req[f] ELSE old[f]]

GetDowntime(srv, id, fault) ==
    CASE fault = "transport" -> Answer(TRUE, None, EmptyDowntime)
      [] fault = "http" -> Answer(TRUE, Some(500), EmptyDowntime)
      [] OTHER ->
           IF Exists(srv, id) THEN Answer(FALSE, Some(200), srv[1])
           ELSE Answer(TRUE, Some(StatusNotFound), EmptyDowntime)

CreateDowntime(req, fault, newId) ==
    CASE fault = "transport" -> Answer(TRUE, None, EmptyDowntime)
      [] fault = "http" -> Answer(TRUE, Some(500), EmptyDowntime)
      [] OTHER ->
           Answer(FALSE, Some(200),
                  ServerDefaults([req EXCEPT !.Id = Some(newId),
                                             !.Active = Some(GetInt(req.Start) = 0),
                                             !.Disabled = Some(FALSE),
                                             !.CanceledIsSet = TRUE]))

UpdateDowntime(srv, id, req, fault, newId) ==
    CASE fault = "transport" -> Answer(TRUE, None, EmptyDowntime)
      [] fault = "http" -> Answer(TRUE, Some(500), EmptyDowntime)
      [] OTHER ->
           IF Exists(srv, id)
           THEN Answer(FALSE, Some(200),
                       ServerDefaults([Merge(srv[1], req) EXCEPT !.Id = Some(newId)]))
           ELSE Answer(TRUE, Some(StatusNotFound), EmptyDowntime)

CancelDowntime(srv, id, fault) ==
    CASE fault = "transport" -> Answer(TRUE, None, EmptyDowntime)
      [] fault = "http" -> Answer(TRUE, Some(500), EmptyDowntime)
      [] OTHER ->
           IF Exists(srv, id)
           THEN Answer(FALSE, Some(200),
                       [srv[1] EXCEPT !.CanceledIsSet = TRUE, !.Canceled = Some(1),
                                      !.Active = Some(FALSE)])
           ELSE Answer(TRUE, Some(StatusNotFound), EmptyDowntime)

\* utils.TranslateClientError(err, httpresp.Request.URL.Host, msg): the argument
\* dereferences httpresp, so a nil response panics before an error is built
TranslateClientError(resp) == IF resp = None THEN "panic" ELSE "error"

Call(name, id) == [name |-> name, id |-> id]

-----------------------------------------------------------------------------
(* getDowntimeBoundaryTimestamp *)

\* a malformed date falling through to the integer attribute
getDowntimeBoundaryTimestampFallThrough(rd, dateAttr, tsAttr) ==
    IF GetOkString(rd[dateAttr]) /\ ~ParseRFC3339(rd[dateAttr][1]).err
    THEN [ts |-> ParseRFC3339(rd[dateAttr][1]).unix, tsFrom |-> dateAttr]
    ELSE IF GetOkInt(rd[tsAttr])
    THEN [ts |-> rd[tsAttr][1], tsFrom |-> tsAttr]
    ELSE [ts |-> 0, tsFrom |-> ""]

getDowntimeBoundaryTimestamp(rd, dateAttr, tsAttr) ==
    IF GetOkString(rd[dateAttr])
    THEN LET t == ParseRFC3339(rd[dateAttr][1])
         IN  IF ~t.err THEN [ts |-> t.unix, tsFrom |-> dateAttr]
             ELSE [ts |-> 0, tsFrom |-> ""]
    ELSE IF GetOkInt(rd[tsAttr])
    THEN [ts |-> rd[tsAttr][1], tsFrom |-> tsAttr]
    ELSE [ts |-> 0, tsFrom |-> ""]

(* downtimeBoundaryNeedsApply *)

\* drift and change both required
downtimeBoundaryNeedsApplyBoth(rd, tsFrom, apiTs, configTs, updating) ==
    IF tsFrom = "" THEN FALSE
    ELSE IF updating THEN apiTs # configTs /\ HasChange(rd, tsFrom)
    ELSE TRUE

\* the check for a boundary that is not configured left out
downtimeBoundaryNeedsApplyUnguarded(rd, tsFrom, apiTs, configTs, updating) ==
    IF updating THEN apiTs # configTs \/ HasChange(rd, tsFrom)
    ELSE TRUE

downtimeBoundaryNeedsApply(rd, tsFrom, apiTs, configTs, updating) ==
    IF tsFrom = "" THEN FALSE
    ELSE IF updating THEN apiTs # configTs \/ HasChange(rd, tsFrom)
    ELSE TRUE

-----------------------------------------------------------------------------
(* buildDowntimeStruct, field by field *)

requestBoundary(rd, dateAttr, tsAttr, current, updating) ==
    LET b == getDowntimeBoundaryTimestamp(rd, dateAttr, tsAttr)
    IN  IF downtimeBoundaryNeedsApply(rd, b.tsFrom, current, b.ts, updating)
        THEN Some(b.ts) ELSE None

\* the message sent as configured, not trimmed
requestMessageUntrimmed(rd) ==
    IF GetOkList(rd.message) THEN Some(rd.message[1]) ELSE None

requestMessage(rd) ==
    IF GetOkList(rd.message) THEN Some(TrimSpace(rd.message[1])) ELSE None

requestMonitorId(rd) ==
    IF GetOkInt(rd.monitor_id) THEN Some(rd.monitor_id[1]) ELSE None

requestRecurrence(rd) ==
    IF IsSome(rd.recurrence)
    THEN LET r == rd.recurrence[1]
         IN  Some([Period |-> IF GetOkInt(r.period) THEN r.period ELSE None,
                   Type |-> IF GetOkString(r.type) THEN r.type ELSE None,
                   UntilDate |-> IF GetOkInt(r.until_date) THEN r.until_date ELSE None,
                   UntilOccurrences |->
                       IF GetOkInt(r.until_occurrences) THEN r.until_occurrences
                       ELSE None,
                   WeekDays |-> IF GetOkList(r.week_days) THEN r.week_days ELSE None,
                   Rrule |-> IF GetOkString(r.rrule) THEN r.rrule ELSE None])
    ELSE None

requestScope(rd) == Some(rd.scope)

\* (*schema.Set).List(): the elements in the set's own order
RECURSIVE SetList(_)
SetList(S) ==
    IF S = {} THEN <<>>
    ELSE LET x == CHOOSE y \in S : TRUE IN <<x>> \o SetList(S \ {x})

requestMonitorTags(rd) == Some(SetList(GetSet(rd.monitor_tags)))

requestTimezone(rd) ==
    IF GetOkString(rd.timezone) THEN Some(rd.timezone[1]) ELSE None

buildDowntimeStruct(rd, srv, fault, updating) ==
    LET id == ParseInt(rd.id)
        got == IF updating /\ ~id.err THEN GetDowntime(srv, id.n, fault) ELSE NoAnswer
        calls == IF updating /\ ~id.err THEN <<Call("GetDowntime", id.n)>> ELSE <<>>
        currentStart == IF updating THEN GetInt(got.dt.Start) ELSE 0
        currentEnd == IF updating THEN GetInt(got.dt.End) ELSE 0
    IN  IF updating /\ id.err
        THEN [err |-> "error", dt |-> EmptyDowntime, calls |-> calls, got |-> got]
        ELSE IF got.err
        THEN [err |-> TranslateClientError(got.resp), dt |-> EmptyDowntime,
              calls |-> calls, got |-> got]
        ELSE [err |-> "",
              dt |-> [EmptyDowntime EXCEPT
                        !.End = requestBoundary(rd, "end_date", "end", currentEnd, updating),
                        !.Message = requestMessage(rd),
                        !.MonitorId = requestMonitorId(rd),
                        !.Recurrence = requestRecurrence(rd),
                        !.Scope = requestScope(rd),
                        !.MonitorTags = requestMonitorTags(rd),
                        !.Start = requestBoundary(rd, "start_date", "start",
                                                  currentStart, updating),
                        !.Timezone = requestTimezone(rd)],
              calls |-> calls, got |-> got]

-----------------------------------------------------------------------------
(* updateDowntimeState: the d.Set calls in the order of the code.  failAttr  *)
(* names the attribute whose d.Set fails ("" when none does).               *)

ProjectionOrder ==
    <<"active", "disabled", "end", "message", "monitor_id", "timezone",
      "recurrence", "scope", "monitor_tags", "start">>

\* the sentinel test as "contains *" instead of "is exactly [*]"
WritesUnlessStar(dt, attr) ==
    CASE attr = "monitor_id" -> dt.MonitorId # None
      [] attr = "recurrence" -> dt.Recurrence # None
      [] attr = "monitor_tags" -> "*" \notin Range(GetList(dt.MonitorTags))
      [] OTHER -> TRUE

\* whether updateDowntimeState calls d.Set for the attribute at all
Writes(dt, attr) ==
    CASE attr = "monitor_id" -> dt.MonitorId # None
      [] attr = "recurrence" -> dt.Recurrence # None
      [] attr = "monitor_tags" -> GetList(dt.MonitorTags) # <<"*">>
      [] OTHER -> TRUE

projectRecurrence(r) ==
    [period |-> r.Period, type |-> r.Type, until_date |-> r.UntilDate,
     until_occurrences |-> r.UntilOccurrences, week_days |-> r.WeekDays,
     rrule |-> r.Rrule]

\* the value d.Set stores for the attribute
Projected(dt, attr) ==
    CASE attr = "active" -> Some(GetBool(dt.Active))
      [] attr = "disabled" -> Some(GetBool(dt.Disabled))
      [] attr = "end" -> Some(GetInt(dt.End))
      [] attr = "message" -> Some(GetList(dt.Message))
      [] attr = "monitor_id" -> Some(GetInt(dt.MonitorId))
      [] attr = "timezone" -> Some(GetString(dt.Timezone))
      [] attr = "recurrence" -> Some(projectRecurrence(dt.Recurrence[1]))
      [] attr = "scope" -> GetList(dt.Scope)
      [] attr = "monitor_tags" -> Some(Range(GetList(dt.MonitorTags)))
      [] attr = "start" -> Some(GetInt(dt.Start))

\* a failed write noted, the remaining writes still made
RECURSIVE setFromKeepGoing(_, _, _, _)
setFromKeepGoing(rd, dt, i, failAttr) ==
    IF i > Len(ProjectionOrder)
    THEN [d |-> rd, err |-> failAttr # "" /\ Writes(dt, failAttr),
          failed |-> IF failAttr # "" /\ Writes(dt, failAttr) THEN failAttr ELSE ""]
    ELSE LET attr == ProjectionOrder[i]
         IN  IF ~Writes(dt, attr) \/ attr = failAttr
             THEN setFromKeepGoing(rd, dt, i + 1, failAttr)
             ELSE setFromKeepGoing([rd EXCEPT ![attr] = Projected(dt, attr)], dt,
                                   i + 1, failAttr)

RECURSIVE setFrom(_, _, _, _)
setFrom(rd, dt, i, failAttr) ==
    IF i > Len(ProjectionOrder) THEN [d |-> rd, err |-> FALSE, failed |-> ""]
    ELSE LET attr == ProjectionOrder[i]
         IN  IF ~Writes(dt, attr) THEN setFrom(rd, dt, i + 1, failAttr)
             ELSE IF attr = failAttr
             THEN [d |-> rd, err |-> TRUE, failed |-> attr]
             ELSE setFrom([rd EXCEPT ![attr] = Projected(dt, attr)], dt, i + 1,
                          failAttr)

updateDowntimeState(rd, dt, failAttr) == setFrom(rd, dt, 1, failAttr)

-----------------------------------------------------------------------------
(* The handlers.  Each returns the resource data it leaves, the downtime the *)
(* service then holds, its result ("" for nil, "error", or "panic"), the     *)
(* calls it made in order, and what it sent and was answered.                *)

Outcome(rd, srv, err, calls, got, req, sent, writeErr) ==
    [d |-> rd, remote |-> srv, err |-> err, calls |-> calls, got |-> got,
     req |-> req, sent |-> sent, writeErr |-> writeErr]

resourceDatadogDowntimeCreate(rd, srv, fault, newId, failAttr) ==
    LET dts == buildDowntimeStruct(rd, srv, fault, FALSE)
        ans == CreateDowntime(dts.dt, fault, newId)
        calls == <<Call("CreateDowntime", 0)>>
        withId == [rd EXCEPT !.id = FormatInt(GetInt(ans.dt.Id))]
        st == updateDowntimeState(withId, ans.dt, failAttr)
    IN  IF dts.err # ""
        THEN Outcome(rd, srv, "error", dts.calls, dts.got, None, NoAnswer, "")
        ELSE IF ans.err
        THEN Outcome(rd, srv, TranslateClientError(ans.resp), calls, dts.got,
                     Some(dts.dt), ans, "")
        ELSE Outcome(st.d, Some(ans.dt), IF st.err THEN "error" ELSE "", calls,
                     dts.got, Some(dts.dt), ans, st.failed)

resourceDatadogDowntimeRead(rd, srv, fault, failAttr) ==
    LET id == ParseInt(rd.id)
        got == GetDowntime(srv, id.n, fault)
        calls == <<Call("GetDowntime", id.n)>>
        st == updateDowntimeState(rd, got.dt, failAttr)
    IN  IF id.err
        THEN Outcome(rd, srv, "error", <<>>, NoAnswer, None, NoAnswer, "")
        ELSE IF got.err
        THEN IF got.resp # None /\ got.resp[1] = StatusNotFound
             THEN Outcome([rd EXCEPT !.id = ""], srv, "", calls, got, None,
                          NoAnswer, "")
             ELSE Outcome(rd, srv, TranslateClientError(got.resp), calls, got,
                          None, NoAnswer, "")
        ELSE IF isCanceled(got.dt)
        THEN Outcome([rd EXCEPT !.id = ""], srv, "", calls, got, None, NoAnswer,
                     "")
        ELSE Outcome(st.d, srv, IF st.err THEN "error" ELSE "", calls, got, None,
                     NoAnswer, st.failed)

resourceDatadogDowntimeUpdate(rd, srv, fault, wfault, newId, failAttr) ==
    LET b == buildDowntimeStruct(rd, srv, fault, TRUE)
        id == ParseInt(rd.id)
        dt == [b.dt EXCEPT !.Id = Some(id.n)]
        ans == UpdateDowntime(srv, id.n, dt, wfault, newId)
        calls == Append(b.calls, Call("UpdateDowntime", id.n))
        withId == [rd EXCEPT !.id = FormatInt(GetInt(dt.Id))]
        st == updateDowntimeState(withId, ans.dt, failAttr)
    IN  IF b.err # ""
        THEN Outcome(rd, srv, IF b.err = "panic" THEN "panic" ELSE "error",
                     b.calls, b.got, None, NoAnswer, "")
        ELSE IF id.err
        THEN Outcome(rd, srv, "error", b.calls, b.got, None, NoAnswer, "")
        ELSE IF ans.err
        THEN Outcome(rd, srv, TranslateClientError(ans.resp), calls, b.got,
                     Some(dt), ans, "")
        ELSE Outcome(st.d, Some(ans.dt), IF st.err THEN "error" ELSE "", calls,
                     b.got, Some(dt), ans, st.failed)

resourceDatadogDowntimeDelete(rd, srv, fault) ==
    LET id == ParseInt(rd.id)
        ans == CancelDowntime(srv, id.n, fault)
        calls == <<Call("CancelDowntime", id.n)>>
    IN  IF id.err
        THEN Outcome(rd, srv, "error", <<>>, NoAnswer, None, NoAnswer, "")
        ELSE IF ans.err
        THEN Outcome(rd, srv, TranslateClientError(ans.resp), calls, NoAnswer,
                     None, ans, "")
        ELSE Outcome(rd, Some(ans.dt), "", calls, NoAnswer, None, ans, "")

resourceDatadogDowntimeImport(rd, srv, fault, failAttr) ==
    resourceDatadogDowntimeRead(rd, srv, fault, failAttr)

-----------------------------------------------------------------------------
(* The state: the resource data the framework hands to the handlers, the     *)
(* downtime the service holds, and the record of the last handler run.       *)

EmptyData ==
    [id |-> "", active |-> None, disabled |-> None, start |-> None,
     start_date |-> None, end |-> None, end_date |-> None, timezone |-> None,
     message |-> None, recurrence |-> None, scope |-> <<>>, monitor_id |-> None,
     monitor_tags |-> None, changed |-> {}]

Attributes == DOMAIN EmptyData \ {"id", "changed"}

FailAttrs == {""} \cup Range(ProjectionOrder)

IdStrings == {"", "x"} \cup {FormatInt(i) : i \in Ids}

Ran(op, pre, o) ==
    [op |-> op, pre |-> pre, err |-> o.err, calls |-> o.calls, got |-> o.got,
     req |-> o.req, sent |-> o.sent, writeErr |-> o.writeErr]

NotRun ==
    Ran("", EmptyData,
        Outcome(EmptyData, None, "", <<>>, NoAnswer, None, NoAnswer, ""))

\* the framework builds the resource data afresh for every handler call and
\* runs one handler on it
Idle == last.op = ""

\* an input that is not read when the call before it failed
After(fault, S, none) == IF fault = "none" THEN S ELSE {none}

Create ==
    /\ Idle
    /\ d.id = ""
    /\ \E fault \in Faults :
       \E newId \in After(fault, Ids, 1), failAttr \in After(fault, FailAttrs, "") :
       \E o \in {resourceDatadogDowntimeCreate(d, remote, fault, newId, failAttr)} :
             /\ d' = o.d
             /\ remote' = o.remote
             /\ last' = Ran("Create", d, o)

\* terraform import hands Read resource data that holds the identifier only
Fresh(rd) == rd = [EmptyData EXCEPT !.id = rd.id]

Read ==
    /\ Idle
    /\ d.id # ""
    /\ ~Fresh(d)
    /\ \E fault \in Faults :
       \E failAttr \in After(fault, FailAttrs, "") :
       \E o \in {resourceDatadogDowntimeRead(d, remote, fault, failAttr)} :
             /\ d' = o.d
             /\ remote' = o.remote
             /\ last' = Ran("Read", d, o)

Update ==
    /\ Idle
    /\ d.id # ""
    /\ ~Fresh(d)
    /\ \E fault \in Faults :
       \E wfault \in After(fault, Faults, "none") :
       \E newId \in After(wfault, Ids, 1), failAttr \in After(wfault, FailAttrs, "") :
       \E o \in {resourceDatadogDowntimeUpdate(d, remote, fault, wfault, newId, failAttr)} :
             /\ d' = o.d
             /\ remote' = o.remote
             /\ last' = Ran("Update", d, o)

Delete ==
    /\ Idle
    /\ d.id # ""
    /\ ~Fresh(d)
    /\ \E fault \in Faults :
       \E o \in {resourceDatadogDowntimeDelete(d, remote, fault)} :
             /\ d' = o.d
             /\ remote' = o.remote
             /\ last' = Ran("Delete", d, o)

Import ==
    /\ Idle
    /\ d.id # ""
    /\ Fresh(d)
    /\ \E fault \in Faults :
       \E failAttr \in After(fault, FailAttrs, "") :
       \E o \in {resourceDatadogDowntimeImport(d, remote, fault, failAttr)} :
             /\ d' = o.d
             /\ remote' = o.remote
             /\ last' = Ran("Import", d, o)

Next == Create \/ Read \/ Update \/ Delete \/ Import

-----------------------------------------------------------------------------
(* Initial states: the resource data of one handler call (a configured       *)
(* resource, created or not, or the bare identifier of an import) and a      *)
(* service that holds a downtime or none.  Three families of inputs: the     *)
(* lifecycle (identifiers, cancellation, failures), the start and end        *)
(* boundaries, and the directly copied fields.                               *)

BaseData == [EmptyData EXCEPT !.scope = <<"host:web-1">>, !.timezone = Some("UTC")]

BaseDowntime ==
    [EmptyDowntime EXCEPT !.Id = Some(1), !.Active = Some(TRUE),
                          !.Disabled = Some(FALSE), !.CanceledIsSet = TRUE,
                          !.Start = Some(1), !.Scope = Some(<<"host:web-1">>),
                          !.MonitorTags = Some(<<"*">>), !.Timezone = Some("UTC")]

ImportData == {[EmptyData EXCEPT !.id = i] : i \in IdStrings \ {""}}

\* canceled: not in the payload, null, or a cancellation time
CanceledStates == {<<FALSE, None>>, <<TRUE, None>>, <<TRUE, Some(1)>>}

LifecycleData ==
    {[BaseData EXCEPT !.id = i, !.start = s, !.end = e, !.message = m,
                      !.monitor_tags = t, !.changed = c] :
        i \in IdStrings, s \in {Some(1)}, e \in {None, Some(MaxTs)},
        m \in {None, Some(<<"a">>)}, t \in {None, Some({"t"})},
        c \in {{}, {"end"}}}

LifecycleRemote ==
    {None} \cup
    {Some([BaseDowntime EXCEPT !.Id = Some(i), !.CanceledIsSet = c[1],
                               !.Canceled = c[2], !.End = e,
                               !.MonitorTags = Some(t)]) :
        i \in Ids, c \in CanceledStates, e \in {None, Some(1)},
        t \in {<<"*">>, <<"t">>}}

Init ==
    /\ d \in LifecycleData \cup ImportData
    /\ remote \in LifecycleRemote
    /\ last = NotRun

Spec == Init /\ [][Next]_vars

\* the boundary attributes: one boundary over all its values, the other at rest
DateStrings == {"", "not-a-date", DateUTC(1), DateOffset(MaxTs)}

StartData ==
    {[BaseData EXCEPT !.id = i, !.start = s, !.start_date = sd, !.changed = c] :
        i \in {"", "1"}, s \in Opt(Ts), sd \in Opt(DateStrings),
        c \in SUBSET {"start", "start_date"}}

EndData ==
    {[BaseData EXCEPT !.id = i, !.end = e, !.end_date = ed, !.changed = c] :
        i \in {"", "1"}, e \in Opt(Ts), ed \in Opt(DateStrings),
        c \in SUBSET {"end", "end_date"}}

StartRemote == {Some([BaseDowntime EXCEPT !.Start = s]) : s \in Opt(Ts)}

EndRemote == {Some([BaseDowntime EXCEPT !.End = e]) : e \in Opt(Ts)}

InitBoundary ==
    /\ \/ d \in StartData \cup ImportData /\ remote \in StartRemote
       \/ d \in EndData /\ remote \in EndRemote
    /\ last = NotRun

SpecBoundary == InitBoundary /\ [][Next]_vars

\* the directly copied fields
SeqsUpTo(S, n) == UNION {[1..k -> S] : k \in 0..n}

Messages == SeqsUpTo({" ", "a"}, MaxMsgLen)

TagLists == {<<>>, <<"*">>, <<"t">>, <<"*", "t">>, <<"*", "*">>}

Recurrences ==
    {[EmptyRecurrence EXCEPT !.Type = Some("days"), !.Period = Some(1)],
     [EmptyRecurrence EXCEPT !.Type = Some("weeks"), !.Period = Some(0),
                             !.WeekDays = Some(<<"Mon">>),
                             !.UntilOccurrences = Some(1)],
     [EmptyRecurrence EXCEPT !.Type = Some(""), !.Rrule = Some("FREQ=DAILY"),
                             !.WeekDays = Some(<<>>)]}

FieldsData ==
    {[BaseData EXCEPT !.id = i, !.message = m, !.monitor_id = mi, !.timezone = tz,
                      !.scope = sc, !.monitor_tags = t] :
        i \in {"", "1"}, m \in Opt(Messages), mi \in Opt(0..1),
        tz \in Opt({"", "UTC"}), sc \in {<<>>, <<"a", "b">>},
        t \in Opt({{}, {"t"}})}
    \cup
    {[BaseData EXCEPT !.id = i, !.recurrence = Some(projectRecurrence(r))] :
        i \in {"", "1"}, r \in Recurrences}

FieldsRemote ==
    {Some([BaseDowntime EXCEPT !.Message = m, !.MonitorId = mi, !.Timezone = tz,
                               !.Scope = sc, !.MonitorTags = t]) :
        m \in Opt(Messages), mi \in Opt(0..1), tz \in Opt({"UTC"}),
        sc \in Opt({<<"a", "b">>, <<"b", "a">>}), t \in Opt(TagLists)}
    \cup
    {Some([BaseDowntime EXCEPT !.Recurrence = Some(r)]) : r \in Recurrences}

\* the configuration varies against a service at rest, or the service varies
\* against a configuration that may hold a monitor or tags of its own
InitFields ==
    /\ \/ d \in FieldsData /\ remote = Some(BaseDowntime)
       \/ /\ d \in {[BaseData EXCEPT !.id = "1", !.monitor_id = mi,
                                     !.monitor_tags = t] :
                       mi \in {None, Some(1)}, t \in {None, Some({"t"})}}
                   \cup {[EmptyData EXCEPT !.id = "1"]}
          /\ remote \in FieldsRemote
    /\ last = NotRun

SpecFields == InitFields /\ [][Next]_vars

-----------------------------------------------------------------------------
(* What the checks below read off the record of the last handler run *)

Answered(ans) == ~ans.err /\ ans.resp # None

\* the downtime updateDowntimeState was handed, and whether it was called
ProjectedFrom == IF last.op \in {"Read", "Import"} THEN last.got.dt ELSE last.sent.dt

ProjectionRan ==
    \/ /\ last.op \in {"Read", "Import"}
       /\ Answered(last.got)
       /\ ~(last.got.dt.CanceledIsSet /\ last.got.dt.Canceled # None)
    \/ /\ last.op \in {"Create", "Update"}
       /\ Answered(last.sent)

Pos(attr) == CHOOSE i \in 1..Len(ProjectionOrder) : ProjectionOrder[i] = attr

\* the projection got past the attribute without a failed write
Passed(attr) ==
    ProjectionRan /\ (last.writeErr = "" \/ Pos(last.writeErr) > Pos(attr))

RequestBuilt == last.op \in {"Create", "Update"} /\ last.req # None

Boundaries == {<<"start_date", "start", "Start">>, <<"end_date", "end", "End">>}

Malformed(o) == GetOkString(o) /\ ParseRFC3339(GetString(o)).err

-----------------------------------------------------------------------------
\* C1: a Read or Import with a parseable identifier that is answered 404, or
\* is answered a downtime whose canceled field carries a value, returns
\* success, clears the identifier and changes no other attribute.
C1_ReadGoneClearsId ==
    ( /\ last.op \in {"Read", "Import"}
      /\ ~ParseInt(last.pre.id).err
      /\ \/ last.got.err /\ last.got.resp = Some(StatusNotFound)
         \/ Answered(last.got) /\ last.got.dt.CanceledIsSet
                               /\ last.got.dt.Canceled # None )
    => /\ last.err = ""
       /\ d.id = ""
       /\ \A a \in Attributes : d[a] = last.pre[a]

C1_Witness ==
    /\ last.op = "Read"
    /\ Answered(last.got)
    /\ last.got.dt.Canceled # None
    /\ last.pre.id = "1"
    /\ d.id = ""
    /\ last.err = ""

\* C2: for both boundaries and both modes, the boundary is applied (carried by
\* the request) exactly when a value was supplied and, in update mode, the
\* remote value differs from it or has-changed holds for the supplying attribute.
C2_ApplyDecision ==
    RequestBuilt =>
      \A B \in Boundaries :
        LET b == getDowntimeBoundaryTimestamp(last.pre, B[1], B[2])
            apiTs == GetInt(last.got.dt[B[3]])
            applied == last.req[1][B[3]] # None
        IN  /\ applied =
                 ( IF b.tsFrom = "" THEN FALSE
                   ELSE IF last.op = "Create" THEN TRUE
                   ELSE apiTs # b.ts \/ HasChange(last.pre, b.tsFrom) )
            /\ applied => last.req[1][B[3]] = Some(b.ts)

C2_Witness ==
    /\ last.op = "Update"
    /\ last.req # None
    /\ last.pre.end = Some(MaxTs)
    /\ last.pre.end_date = None
    /\ last.got.dt.End = Some(MaxTs)
    /\ "end" \notin last.pre.changed
    /\ last.req[1].End = None

\* C3: after a successful Update the local identifier is the identifier of
\* the downtime the update call returned.
C3_UpdateAdoptsReturnedId ==
    (last.op = "Update" /\ last.err = "")
    => d.id = FormatInt(GetInt(last.sent.dt.Id))

\* C4: the request carries an optional field only if the attribute is set in
\* configuration; in particular it carries no monitor_tags when monitor_tags
\* is not set.
C4_OptionalFieldsOnlyIfSet ==
    RequestBuilt =>
      LET r == last.req[1]
          p == last.pre
      IN  /\ r.Message # None => p.message # None
          /\ r.MonitorId # None => p.monitor_id # None
          /\ r.MonitorTags # None => p.monitor_tags # None
          /\ r.Timezone # None => p.timezone # None
          /\ r.Recurrence # None =>
               /\ p.recurrence # None
               /\ r.Recurrence[1].Period # None => p.recurrence[1].period # None
               /\ r.Recurrence[1].Type # None => p.recurrence[1].type # None
               /\ r.Recurrence[1].UntilDate # None =>
                    p.recurrence[1].until_date # None
               /\ r.Recurrence[1].UntilOccurrences # None =>
                    p.recurrence[1].until_occurrences # None
               /\ r.Recurrence[1].WeekDays # None =>
                    p.recurrence[1].week_days # None
               /\ r.Recurrence[1].Rrule # None => p.recurrence[1].rrule # None

\* C5: when a remote downtime is projected, a monitor_tags of exactly ["*"]
\* leaves the local monitor_tags as it was, and every other value sets it to
\* the remote set of tags.
C5_SentinelSuppression ==
    Passed("monitor_tags") =>
      IF GetList(ProjectedFrom.MonitorTags) = <<"*">>
      THEN d.monitor_tags = last.pre.monitor_tags
      ELSE d.monitor_tags = Some(Range(GetList(ProjectedFrom.MonitorTags)))

C5_Witness ==
    /\ last.op = "Read"
    /\ Passed("monitor_tags")
    /\ ProjectedFrom.MonitorTags = Some(<<"*">>)
    /\ last.pre.monitor_tags = Some({"t"})
    /\ d.monitor_tags = Some({"t"})

C5_WitnessWritten ==
    /\ last.op = "Read"
    /\ Passed("monitor_tags")
    /\ ProjectedFrom.MonitorTags = Some(<<"*", "t">>)
    /\ d.monitor_tags = Some({"*", "t"})

\* the request the builder makes, in update mode, from the configuration a
\* Read or Import has just projected
RoundTripCase == last.op \in {"Read", "Import"} /\ last.err = "" /\ ProjectionRan

Rebuilt == buildDowntimeStruct(d, remote, "none", TRUE)

\* C6 (as stated): a remote downtime projected and then rebuilt in update mode
\* gives a request equal to it in message (trimmed), scope (in order),
\* monitor_tags (as a set), timezone and monitor_id.
C6_RoundTrip ==
    RoundTripCase =>
      /\ Rebuilt.err = ""
      /\ GetList(Rebuilt.dt.Message) = TrimSpace(GetList(last.got.dt.Message))
      /\ GetList(Rebuilt.dt.Scope) = GetList(last.got.dt.Scope)
      /\ Range(GetList(Rebuilt.dt.MonitorTags)) =
             Range(GetList(last.got.dt.MonitorTags))
      /\ GetString(Rebuilt.dt.Timezone) = GetString(last.got.dt.Timezone)
      /\ GetInt(Rebuilt.dt.MonitorId) = GetInt(last.got.dt.MonitorId)

\* C6 (amended): as C6, except that a remote monitor_tags of exactly ["*"] and
\* an absent remote monitor_id are not projected, so the request carries for
\* them what the local configuration held before the projection.
C6_RoundTripExceptUnprojected ==
    RoundTripCase =>
      /\ Rebuilt.err = ""
      /\ GetList(Rebuilt.dt.Message) = TrimSpace(GetList(last.got.dt.Message))
      /\ GetList(Rebuilt.dt.Scope) = GetList(last.got.dt.Scope)
      /\ Range(GetList(Rebuilt.dt.MonitorTags)) =
             IF GetList(last.got.dt.MonitorTags) = <<"*">>
             THEN GetSet(last.pre.monitor_tags)
             ELSE Range(GetList(last.got.dt.MonitorTags))
      /\ GetString(Rebuilt.dt.Timezone) = GetString(last.got.dt.Timezone)
      /\ GetInt(Rebuilt.dt.MonitorId) =
             IF last.got.dt.MonitorId = None THEN GetInt(last.pre.monitor_id)
             ELSE GetInt(last.got.dt.MonitorId)

C6_Witness ==
    /\ RoundTripCase
    /\ last.got.dt.Message = Some(<<" ", "a">>)
    /\ last.got.dt.MonitorTags = Some(<<"*", "t">>)
    /\ Rebuilt.dt.Message = Some(<<"a">>)
    /\ Range(GetList(Rebuilt.dt.MonitorTags)) = {"*", "t"}

\* C7 (as stated): a date string that is set but is not valid RFC3339 is
\* treated as not present: the resolver returns what it returns with the date
\* string unset.
C7_MalformedAsUnset ==
    RequestBuilt =>
      \A B \in Boundaries :
        (last.pre[B[1]] # None /\ ParseRFC3339(GetString(last.pre[B[1]])).err)
        => getDowntimeBoundaryTimestamp(last.pre, B[1], B[2]) =
           getDowntimeBoundaryTimestamp([last.pre EXCEPT ![B[1]] = None], B[1], B[2])

\* C7 (amended): a non-empty date string that is not valid RFC3339 makes the
\* resolver return zero tagged as unset, whether or not the integer attribute
\* is set, and the boundary is left out of the request; an empty date string
\* counts as unset.
C7_MalformedHidesInteger ==
    RequestBuilt =>
      \A B \in Boundaries :
        /\ Malformed(last.pre[B[1]]) =>
             /\ getDowntimeBoundaryTimestamp(last.pre, B[1], B[2]) =
                    [ts |-> 0, tsFrom |-> ""]
             /\ last.req[1][B[3]] = None
        /\ last.pre[B[1]] = Some("") =>
             getDowntimeBoundaryTimestamp(last.pre, B[1], B[2]) =
             getDowntimeBoundaryTimestamp([last.pre EXCEPT ![B[1]] = None],
                                          B[1], B[2])

C7_Witness ==
    /\ last.op = "Create"
    /\ last.req # None
    /\ last.pre.start_date = Some("not-a-date")
    /\ last.pre.start = Some(MaxTs)
    /\ last.req[1].Start = None

\* C8 (as stated): when a projected write fails the handler returns an error at
\* once, writes no later field, and leaves the local configuration as it was
\* before the projection.
C8_FailedWriteLeavesNothing ==
    last.writeErr # "" =>
      /\ last.err = "error"
      /\ \A a \in Range(ProjectionOrder) :
           Pos(a) >= Pos(last.writeErr) => d[a] = last.pre[a]
      /\ d = last.pre

\* C8 (amended): when a projected write fails the handler returns an error at
\* once and writes no later field; the fields written before it keep their
\* projected values, and the identifier stays as set before the projection.
C8_FailedWriteKeepsEarlierWrites ==
    last.writeErr # "" =>
      /\ last.err = "error"
      /\ \A a \in Range(ProjectionOrder) :
           IF Pos(a) < Pos(last.writeErr) /\ Writes(ProjectedFrom, a)
           THEN d[a] = Projected(ProjectedFrom, a)
           ELSE d[a] = last.pre[a]
      /\ \A a \in {"start_date", "end_date", "changed"} : d[a] = last.pre[a]
      /\ d.id = IF last.op = "Create" THEN FormatInt(GetInt(last.sent.dt.Id))
                ELSE last.pre.id

C8_Witness ==
    /\ last.op = "Read"
    /\ last.writeErr = "message"
    /\ last.err = "error"
    /\ d.end # last.pre.end
    /\ d.message = last.pre.message
    /\ d.message # Some(GetList(ProjectedFrom.Message))

\* C9: an Update calls get-downtime and then update-downtime and nothing else;
\* when the fetch fails or the identifier is not an integer it does not call
\* update-downtime, returns an error and leaves the local data unchanged.
C9_UpdateFetchThenWrite ==
    last.op = "Update" =>
      LET id == ParseInt(last.pre.id)
          fetch == Call("GetDowntime", id.n)
          write == Call("UpdateDowntime", id.n)
      IN  /\ last.calls \in {<<>>, <<fetch>>, <<fetch, write>>}
          /\ (id.err \/ last.got.err) =>
               /\ write \notin Range(last.calls)
               /\ last.err = "error"
               /\ d = last.pre

\* the same with a panic counted as a failure of the handler
UpdateFetchThenWriteOrPanic ==
    last.op = "Update" =>
      LET id == ParseInt(last.pre.id)
          fetch == Call("GetDowntime", id.n)
          write == Call("UpdateDowntime", id.n)
      IN  /\ last.calls \in {<<>>, <<fetch>>, <<fetch, write>>}
          /\ (id.err \/ last.got.err) =>
               /\ write \notin Range(last.calls)
               /\ last.err \in {"error", "panic"}
               /\ d = last.pre

\* C10: in update mode a boundary with neither attribute set is left out of
\* the request, whatever has-changed says and whatever the remote value is,
\* and the service keeps the boundary it had.
C10_RemovedBoundaryOmitted ==
    (last.op = "Update" /\ last.req # None) =>
      \A B \in Boundaries :
        (last.pre[B[1]] = None /\ last.pre[B[2]] = None) =>
          /\ last.req[1][B[3]] = None
          /\ Answered(last.sent) =>
               /\ remote = Some(last.sent.dt)
               /\ last.sent.dt[B[3]] = last.got.dt[B[3]]

C10_Witness ==
    /\ last.op = "Update"
    /\ last.err = ""
    /\ last.pre.end = None
    /\ last.pre.end_date = None
    /\ "end" \in last.pre.changed
    /\ GetInt(last.got.dt.End) # 0
    /\ last.req[1].End = None
    /\ remote[1].End = last.got.dt.End

====
